---- MODULE Spec2Model ----
(***************************************************************************)
(* Model of travelit.py: a Streamlit script that resolves place names to   *)
(* IATA codes, searches flight and hotel offers through the Amadeus client *)
(* and books a hotel offer chosen by its display row index.                *)
(*                                                                         *)
(* A string that the program inspects character by character (a place      *)
(* name) is a sequence of one-character strings.  A Python dict is a TLA+  *)
(* function whose DOMAIN is the set of keys present, so that dict.get with *)
(* a default and the `in` test are modelled by what they do.               *)
(*                                                                         *)
(* Every call of the external service answers with data, raises            *)
(* ResponseError, or raises another exception; get_iata_code names both    *)
(* kinds of exception, the other call sites catch ResponseError alone.     *)
(* An exception nobody catches ends the script run (run_error).            *)
(*                                                                         *)
(* Four specifications:                                                    *)
(*   SpecResolve  get_iata_code (and sanitize_place_name) on every place   *)
(*                name of at most MaxLen characters;                       *)
(*   SpecFlights  parse_flight_offers on every list of at most             *)
(*                MaxFlightOffers offers;                                  *)
(*   SpecSearch   the "Generate Itinerary & Flight Offers" run; it reads   *)
(*                and writes nothing of st.session_state;                  *)
(*   SpecHotels   the session of sections 5 to 7: hotel list, hotel        *)
(*                offers, booking, one action per script run.              *)
(* Dates and the other request parameters that no step reads back are      *)
(* left out of the recorded requests.                                      *)
(***************************************************************************)
EXTENDS Integers, Sequences, FiniteSets, TLC

VARIABLES
    \* --- section 4: itinerary and flight flow (one script run) ---
    origin_input,        \* st.text_input "Departure (City Name or Airport)"
    destination_input,   \* st.text_input "Destination (City Name)"
    location_calls,      \* keywords sent to reference_data.locations.get in the last run
    origin_code,         \* what get_iata_code returned for the origin in the last run
    destination_code,    \* what it returned for the destination
    flight_calls,        \* queries sent to shopping.flight_offers_search.get in the last run
    ui_messages,         \* st.error / st.warning / headings written by the last run
    run_error,           \* exception that ended the last script run, or "none"
    flight_offers_data,  \* the list of raw flight offers last received
    flight_df,           \* rows of the flight table last built
    place_query,         \* the argument of a call of get_iata_code
    iata_code,           \* what that call returned
    \* --- sections 5 to 7: hotel list, hotel offers, booking ---
    session_state,       \* st.session_state: a dict, its DOMAIN the keys present
    fetch_button_shown,  \* the last run rendered "Fetch Offers for Selected Hotel"
    book_button_shown,   \* the last run rendered "Book This Offer"
    hotel_offers_data,   \* the list of raw hotel offers last given to parse_hotel_offers
    latest_offers,       \* history: the last answer of hotel_offers_search that was no error
    selected_offer_idx,  \* value of the selectbox "Select Offer Index to Book" at the last booking
    booking_payload,     \* payloads posted to booking.hotel_bookings by the last run
    booking_resp,        \* what book_hotel_offer returned in the last run
    hotel_calls,         \* hotelIds sent to shopping.hotel_offers_search.get by the last run
    last_op              \* the operation the last step performed

searchVars == <<origin_input, destination_input, location_calls, origin_code,
                destination_code, flight_calls, ui_messages, run_error>>

flightVars == <<flight_offers_data, flight_df>>

resolveVars == <<place_query, iata_code>>

hotelVars == <<session_state, fetch_button_shown, book_button_shown, hotel_offers_data,
               latest_offers, selected_offer_idx, booking_payload, booking_resp,
               hotel_calls>>

vars == <<searchVars, flightVars, resolveVars, hotelVars, last_op>>

-----------------------------------------------------------------------------
(* Bounds *)
MaxLen == 3
MaxInputLen == 2
MaxHotels == 2
MaxFlightOffers == 2

-----------------------------------------------------------------------------
(* Generic helpers: Python built-ins *)

None == "<None>"

\* a variable the run has not assigned
Unset == "<unset>"

\* dict.get(key, default)
Get(d, k, default) == IF k \in DOMAIN d THEN d[k] ELSE default

SeqsUpTo(S, n) == UNION {[1..k -> S] : k \in 0..n}

\* the characters of the model's place names: a letter, a blank, and one of
\* the characters the sanitizer removes
Chars == {"a", " ", "'"}

PlaceNames == SeqsUpTo(Chars, MaxLen)

\* what is typed into the two text inputs of the itinerary flow
InputNames == SeqsUpTo(Chars, MaxInputLen)

Whitespace == {" "}

\* the character class of the regular expression ["'{}<>]
ProblemChars == {"\"", "'", "{", "}", "<", ">"}

RECURSIVE lstrip(_)
lstrip(s) ==
    IF s = <<>> THEN <<>>
    ELSE IF Head(s) \in Whitespace THEN lstrip(Tail(s)) ELSE s

RECURSIVE rstrip(_)
rstrip(s) ==
    IF s = <<>> THEN <<>>
    ELSE IF s[Len(s)] \in Whitespace THEN rstrip(SubSeq(s, 1, Len(s) - 1)) ELSE s

\* str.strip()
strip(s) == rstrip(lstrip(s))

\* re.sub(r'[\"\'{}<>]', '', s)
re_sub_problem_chars(s) == SelectSeq(s, LAMBDA c : c \notin ProblemChars)

sanitize_place_name(place_name) == re_sub_problem_chars(strip(place_name))

\* str.upper() on the location codes of the model
upper(code) ==
    CASE code = "sfo" -> "SFO"
      [] code = "jfk" -> "JFK"
      [] OTHER -> code

\* Python truthiness of an optional string
Falsy(v) == v = None \/ v = ""

-----------------------------------------------------------------------------
(* The external service: what one call can answer *)

\* response.data of reference_data.locations.get
LocationData ==
    { <<>>,
      <<[iataCode |-> "JFK"]>>,
      <<[iataCode |-> "sfo"], [iataCode |-> "JFK"]>>,
      <<[name |-> "no code"]>> }

LocationOutcomes ==
    {[kind |-> "data", data |-> d] : d \in LocationData}
        \cup {[kind |-> "ResponseError"], [kind |-> "Exception"]}

\* get_iata_code without its test of the sanitized name
get_iata_code_unguarded(place_name, svc) ==
    [code |-> IF svc.kind = "data"
              THEN IF Len(svc.data) > 0
                   THEN Get(svc.data[1], "iataCode", None)
                   ELSE None
              ELSE None,
     keywords |-> <<sanitize_place_name(place_name)>>]

\* get_iata_code: the code returned and the keywords it sent to the service
get_iata_code(place_name, svc) ==
    LET place_name_clean == sanitize_place_name(place_name) IN
    IF place_name_clean = <<>>
    THEN [code |-> None, keywords |-> <<>>]
    ELSE [code |-> IF svc.kind = "data"
                   THEN IF Len(svc.data) > 0
                        THEN Get(svc.data[1], "iataCode", None)
                        ELSE None
                   ELSE None,
          keywords |-> <<place_name_clean>>]

-----------------------------------------------------------------------------
(* Flight offers: the raw objects and parse_flight_offers *)

SegmentFull ==
    [carrierCode |-> "AA",
     departure |-> [iataCode |-> "JFK", at |-> "2025-09-01T08:00"],
     arrival |-> [iataCode |-> "ORD", at |-> "2025-09-01T10:00"]]

\* a segment without carrier and without arrival
SegmentPartial ==
    [departure |-> [iataCode |-> "ORD"], number |-> "12"]

\* an itinerary of n segments (n <= 2)
Itinerary(n) ==
    [duration |-> "PT5H", segments |-> SubSeq(<<SegmentFull, SegmentPartial>>, 1, n)]

\* the itinerary lists of the offers of the model, by shape
ItineraryLists ==
    { <<>>,
      <<Itinerary(1)>>,
      <<Itinerary(2)>>,
      <<Itinerary(1), Itinerary(2)>>,
      <<Itinerary(0), Itinerary(1)>>,
      <<[duration |-> "PT1H"]>> }

FlightPrices == {"100.00", "250.50"}

FlightOffers ==
    {[id |-> "F", price |-> [total |-> p], itineraries |-> its] :
        p \in FlightPrices, its \in ItineraryLists}
    \cup {[id |-> "F", itineraries |-> its] : its \in ItineraryLists}
    \cup {[id |-> "F", price |-> [currency |-> "EUR"], itineraries |-> <<Itinerary(2)>>],
          [id |-> "F", price |-> [total |-> "100.00"]]}

RECURSIVE Concat(_)
Concat(ss) == IF ss = <<>> THEN <<>> ELSE Head(ss) \o Concat(Tail(ss))

\* the row of one segment of an offer whose total price is total_price
flight_row(segment, total_price) ==
    LET departure == Get(segment, "departure", [x \in {} |-> "N/A"])
        arrival == Get(segment, "arrival", [x \in {} |-> "N/A"])
    IN  [Airline |-> Get(segment, "carrierCode", "N/A"),
         DepartureAirport |-> Get(departure, "iataCode", "N/A"),
         DepartureTime |-> Get(departure, "at", "N/A"),
         ArrivalAirport |-> Get(arrival, "iataCode", "N/A"),
         ArrivalTime |-> Get(arrival, "at", "N/A"),
         TotalPrice |-> total_price]

\* the rows of one offer when only its first itinerary is walked
flight_offer_rows_first_itinerary(offer) ==
    LET total_price == Get(Get(offer, "price", [x \in {} |-> "N/A"]), "total", "N/A")
        itineraries == Get(offer, "itineraries", <<>>)
        segments == IF itineraries = <<>> THEN <<>>
                    ELSE Get(itineraries[1], "segments", <<>>)
    IN  [i \in 1..Len(segments) |-> flight_row(segments[i], total_price)]

\* the rows of one offer: the body of the outer loop of parse_flight_offers
flight_offer_rows(offer) ==
    LET total_price == Get(Get(offer, "price", [x \in {} |-> "N/A"]), "total", "N/A")
        itineraries == Get(offer, "itineraries", <<>>)
        itinerary_rows(itinerary) ==
            LET segments == Get(itinerary, "segments", <<>>)
            IN  [i \in 1..Len(segments) |-> flight_row(segments[i], total_price)]
    IN  Concat([j \in 1..Len(itineraries) |-> itinerary_rows(itineraries[j])])

parse_flight_offers(offers_data) ==
    Concat([k \in 1..Len(offers_data) |-> flight_offer_rows(offers_data[k])])

FlightData == SeqsUpTo(FlightOffers, MaxFlightOffers)

-----------------------------------------------------------------------------
(* Hotels: the raw objects, parse_hotel_list, parse_hotel_offers and        *)
(* book_hotel_offer                                                         *)

EmptyDict == [x \in {} |-> "N/A"]

\* no value: nothing was returned
NoResp == [none |-> TRUE]

HotelSummary1 ==
    [name |-> "HOTEL ONE", hotelId |-> "HTPAR001", chainCode |-> "HT",
     cityCode |-> "PAR", rating |-> "4"]

\* a hotel summary without hotelId
HotelSummary2 == [name |-> "HOTEL TWO", cityCode |-> "PAR"]

\* the answers of hotels.by_city of the model
HotelListData == {<<>>, <<HotelSummary1>>, <<HotelSummary1, HotelSummary2>>}

parse_hotel_list(hotel_data) ==
    [n \in 1..Len(hotel_data) |->
        LET hotel == hotel_data[n] IN
        [Index |-> n - 1,
         HotelName |-> Get(hotel, "name", "N/A"),
         HotelID |-> Get(hotel, "hotelId", "N/A"),
         ChainCode |-> Get(hotel, "chainCode", "N/A"),
         CityCode |-> Get(hotel, "cityCode", "N/A"),
         Rating |-> Get(hotel, "rating", "N/A")]]

Offer1 ==
    [id |-> "OFR1",
     room |-> [type |-> "A1K", description |-> [text |-> "King room"]],
     price |-> [total |-> "200.00", currency |-> "EUR"],
     checkInDate |-> "2025-09-01", checkOutDate |-> "2025-09-03",
     policies |-> [cancellation |-> "FULL"]]

\* an offer without id
OfferNoId ==
    [room |-> [type |-> "B2Q", description |-> [lang |-> "EN"]],
     price |-> [total |-> "150.00", currency |-> "EUR"],
     checkInDate |-> "2025-09-01", checkOutDate |-> "2025-09-03",
     self |-> "https://api/offers/x"]

Offer2 ==
    [id |-> "OFR2",
     price |-> [currency |-> "EUR"],
     guests |-> [adults |-> 2]]

\* the entries of an answer of hotel_offers_search: one hotel and its offers
HotelEntries ==
    { [hotel |-> [name |-> "HOTEL ONE", cityCode |-> "PAR"], offers |-> <<Offer1>>],
      [hotel |-> [name |-> "HOTEL TWO"], offers |-> <<OfferNoId, Offer2>>],
      [available |-> FALSE, offers |-> <<>>] }

HotelOffersData == SeqsUpTo(HotelEntries, MaxHotels)

\* the row of one offer of one hotel, at display index idx_counter
hotel_offer_row(idx_counter, hotel_info, offer) ==
    [Index |-> idx_counter,
     HotelName |-> Get(hotel_info, "name", "N/A"),
     CityCode |-> Get(hotel_info, "cityCode", "N/A"),
     OfferID |-> Get(offer, "id", "N/A"),
     RoomType |-> Get(Get(offer, "room", EmptyDict), "type", "N/A"),
     RoomDescription |-> Get(Get(Get(offer, "room", EmptyDict), "description", EmptyDict),
                             "text", ""),
     CheckIn |-> Get(offer, "checkInDate", "N/A"),
     CheckOut |-> Get(offer, "checkOutDate", "N/A"),
     TotalPrice |-> Get(Get(offer, "price", EmptyDict), "total", "N/A")]

\* the inner loop of parse_hotel_offers over the offers of one hotel; acc holds
\* rows, offer_map and idx_counter
RECURSIVE hotel_offers_inner(_, _, _)
hotel_offers_inner(offers, hotel_info, acc) ==
    IF offers = <<>> THEN acc
    ELSE LET offer == Head(offers)
             offer_id == Get(offer, "id", "N/A")
         IN  hotel_offers_inner(Tail(offers), hotel_info,
                [rows |-> Append(acc.rows,
                                 hotel_offer_row(acc.idx_counter, hotel_info, offer)),
                 offer_map |-> (acc.idx_counter :> <<offer_id, offer>>) @@ acc.offer_map,
                 idx_counter |-> acc.idx_counter + 1])

\* the outer loop with the index counter starting again at 0 for every hotel
RECURSIVE hotel_offers_outer_restart(_, _)
hotel_offers_outer_restart(data, acc) ==
    IF data = <<>> THEN acc
    ELSE LET hotel_offer == Head(data)
             hotel_info == Get(hotel_offer, "hotel", EmptyDict)
         IN  hotel_offers_outer_restart(Tail(data),
                hotel_offers_inner(Get(hotel_offer, "offers", <<>>), hotel_info,
                                   [acc EXCEPT !.idx_counter = 0]))

\* the outer loop of parse_hotel_offers over the hotels
RECURSIVE hotel_offers_outer(_, _)
hotel_offers_outer(data, acc) ==
    IF data = <<>> THEN acc
    ELSE LET hotel_offer == Head(data)
             hotel_info == Get(hotel_offer, "hotel", EmptyDict)
         IN  hotel_offers_outer(Tail(data),
                hotel_offers_inner(Get(hotel_offer, "offers", <<>>), hotel_info, acc))

\* returns (df, offer_map)
parse_hotel_offers(offers_data) ==
    LET r == hotel_offers_outer(offers_data,
                                [rows |-> <<>>, offer_map |-> <<>>, idx_counter |-> 0])
    IN  [df |-> r.rows, offer_map |-> r.offer_map]

\* what booking.hotel_bookings.post does: answers, raises ResponseError, or
\* raises another exception
BookingOutcomes == {"data", "ResponseError", "Exception"}

Confirmation == [type |-> "hotel-booking", id |-> "BK1"]

\* book_hotel_offer: the payload posted, whether an exception left the
\* function, and the value returned otherwise
book_hotel_offer(offer_id, traveler_info, payment_info, svc) ==
    LET payload == [data |-> [offerId |-> offer_id,
                              guests |-> <<traveler_info>>,
                              payments |-> <<payment_info>>]]
    IN  [payload |-> payload,
         raised |-> svc = "Exception",
         value |-> CASE svc = "data" -> Confirmation
                     [] svc = "ResponseError" -> [error |-> "ResponseError"]
                     [] OTHER -> NoResp]

-----------------------------------------------------------------------------
(* The parts of the state a specification does not exercise stay as they    *)
(* are when the script starts.                                              *)

IdleSearch ==
    /\ location_calls = <<>>
    /\ origin_code = Unset
    /\ destination_code = Unset
    /\ flight_calls = <<>>
    /\ ui_messages = <<>>
    /\ run_error = "none"

IdleFlights ==
    /\ flight_offers_data = <<>>
    /\ flight_df = <<>>

IdleResolve ==
    /\ place_query = <<>>
    /\ iata_code = None

IdleHotels ==
    /\ session_state = <<>>
    /\ fetch_button_shown = FALSE
    /\ book_button_shown = FALSE
    /\ hotel_offers_data = <<>>
    /\ latest_offers = [answered |-> FALSE, data |-> <<>>]
    /\ selected_offer_idx = -1
    /\ booking_payload = <<>>
    /\ booking_resp = NoResp
    /\ hotel_calls = <<>>

-----------------------------------------------------------------------------
(* Section 4: the "Generate Itinerary & Flight Offers" handler *)

\* planner.run either returns the itinerary text or raises
PlannerOutcomes == {"content", "Exception"}

\* what shopping.flight_offers_search.get answers in the itinerary flow
FlightSearchOutcomes ==
    {[kind |-> "data", data |-> d] :
        d \in { <<>>,
                <<[id |-> "F", price |-> [total |-> "100.00"],
                   itineraries |-> <<Itinerary(2)>>]>>,
                <<[id |-> "F", itineraries |-> <<Itinerary(1), Itinerary(2)>>],
                  [id |-> "F", price |-> [total |-> "250.50"],
                   itineraries |-> <<Itinerary(1)>>]>> }}
    \cup {[kind |-> "ResponseError", data |-> <<>>], [kind |-> "Exception", data |-> <<>>]}

Msg(widget, text, place) == [widget |-> widget, text |-> text, place |-> place]

DraftItinerary == Msg("markdown", "Draft Itinerary", <<>>)

\* the run ends at planner.run, which raised
ItineraryFailed ==
    /\ location_calls' = <<>>
    /\ flight_calls' = <<>>
    /\ ui_messages' = <<>>
    /\ run_error' = "Exception"
    /\ UNCHANGED flightVars

\* st.error without st.stop: the run goes on to the flight search
PlaceUnresolved_NoStop(which, place_name, keywords) ==
    /\ location_calls' = keywords
    /\ flight_calls' = <<[originLocationCode |-> "NONE",
                          destinationLocationCode |-> "NONE",
                          adults |-> 1]>>
    /\ ui_messages' = <<DraftItinerary,
                         Msg("error", "Could not find a valid IATA code for " \o which,
                             place_name)>>
    /\ run_error' = "none"
    /\ UNCHANGED flightVars

\* st.error and st.stop after a place name did not resolve
PlaceUnresolved(which, place_name, keywords) ==
    /\ location_calls' = keywords
    /\ flight_calls' = <<>>
    /\ ui_messages' = <<DraftItinerary,
                         Msg("error", "Could not find a valid IATA code for " \o which,
                             place_name)>>
    /\ run_error' = "none"
    /\ UNCHANGED flightVars

\* part C of the handler: the flight search and its table
FlightSearch(ocode, dcode, keywords, fsvc) ==
    /\ location_calls' = keywords
    /\ flight_calls' = <<[originLocationCode |-> upper(ocode),
                          destinationLocationCode |-> upper(dcode),
                          adults |-> 1]>>
    /\ CASE fsvc.kind = "Exception" ->
                /\ ui_messages' = <<DraftItinerary>>
                /\ run_error' = "Exception"
                /\ UNCHANGED flightVars
         [] fsvc.kind = "ResponseError" ->
                /\ ui_messages' = <<DraftItinerary,
                                     Msg("error", "Error fetching flight offers", <<>>)>>
                /\ run_error' = "none"
                /\ UNCHANGED flightVars
         [] fsvc.kind = "data" /\ fsvc.data = <<>> ->
                /\ ui_messages' = <<DraftItinerary,
                                     Msg("warning", "No flight offers found", <<>>)>>
                /\ run_error' = "none"
                /\ flight_offers_data' = fsvc.data
                /\ UNCHANGED flight_df
         [] OTHER ->
                /\ ui_messages' = <<DraftItinerary,
                                     Msg("markdown", "Flight Offers (Parsed)", <<>>)>>
                /\ run_error' = "none"
                /\ flight_offers_data' = fsvc.data
                /\ flight_df' = parse_flight_offers(fsvc.data)

GenerateItinerary ==
    /\ last_op' = "generate_itinerary"
    /\ UNCHANGED <<origin_input, destination_input, resolveVars, hotelVars>>
    /\ \E p \in PlannerOutcomes :
         IF p = "Exception"
         THEN /\ ItineraryFailed
              /\ origin_code' = Unset
              /\ destination_code' = Unset
         ELSE \E osvc \in LocationOutcomes :
            LET o == get_iata_code(origin_input, osvc) IN
            /\ origin_code' = o.code
            /\ IF Falsy(o.code)
               THEN /\ PlaceUnresolved("origin", origin_input, o.keywords)
                    /\ destination_code' = Unset
               ELSE \E dsvc \in LocationOutcomes :
                  LET d == get_iata_code(destination_input, dsvc) IN
                  /\ destination_code' = d.code
                  /\ IF Falsy(d.code)
                     THEN PlaceUnresolved("destination", destination_input,
                                          o.keywords \o d.keywords)
                     ELSE \E fsvc \in FlightSearchOutcomes :
                             FlightSearch(o.code, d.code, o.keywords \o d.keywords, fsvc)

InitSearch ==
    /\ origin_input \in InputNames
    /\ destination_input \in InputNames
    /\ IdleSearch /\ IdleFlights /\ IdleResolve /\ IdleHotels
    /\ last_op = "none"

NextSearch == GenerateItinerary

SpecSearch == InitSearch /\ [][NextSearch]_vars

-----------------------------------------------------------------------------
(* parse_flight_offers applied to every list of offers of the model *)

ParseFlightOffers ==
    /\ flight_df' = parse_flight_offers(flight_offers_data)
    /\ last_op' = "parse_flight_offers"
    /\ UNCHANGED <<searchVars, flight_offers_data, resolveVars, hotelVars>>

InitFlights ==
    /\ origin_input = <<>>
    /\ destination_input = <<>>
    /\ IdleSearch /\ IdleResolve /\ IdleHotels
    /\ flight_offers_data \in FlightData
    /\ flight_df = <<>>
    /\ last_op = "none"

NextFlights == ParseFlightOffers

SpecFlights == InitFlights /\ [][NextFlights]_vars

-----------------------------------------------------------------------------
(* get_iata_code applied to every place name of the model *)

ResolvePlace ==
    /\ \E svc \in LocationOutcomes :
          LET r == get_iata_code(place_query, svc) IN
          /\ iata_code' = r.code
          /\ location_calls' = r.keywords
    /\ last_op' = "get_iata_code"
    /\ UNCHANGED <<origin_input, destination_input, origin_code, destination_code,
                   flight_calls, ui_messages, run_error, flightVars, place_query,
                   hotelVars>>

InitResolve ==
    /\ origin_input = <<>>
    /\ destination_input = <<>>
    /\ IdleSearch /\ IdleFlights /\ IdleHotels
    /\ place_query \in PlaceNames
    /\ iata_code = None
    /\ last_op = "none"

NextResolve == ResolvePlace

SpecResolve == InitResolve /\ [][NextResolve]_vars

-----------------------------------------------------------------------------
(* Sections 5 to 7: one action per script run.  Streamlit executes the      *)
(* script from top to bottom on every interaction; at most one button is    *)
(* pressed in a run, and a button can be pressed only if the previous run   *)
(* rendered it.  A selectbox returns one of the options it was given.       *)

HotelListOutcomes ==
    {[kind |-> "data", data |-> d] : d \in HotelListData}
        \cup {[kind |-> "ResponseError", data |-> <<>>], [kind |-> "Exception", data |-> <<>>]}

HotelOffersOutcomes ==
    {[kind |-> "data", data |-> d] : d \in HotelOffersData}
        \cup {[kind |-> "ResponseError", data |-> <<>>], [kind |-> "Exception", data |-> <<>>]}

Titles == {"MR", "MRS", "MS"}

\* session_state[k] = v
Put(d, k, v) == (k :> v) @@ d

\* pd.DataFrame(rows) of an empty list has no columns: df["Index"] raises KeyError
HasColumns(df) == df # <<>>

\* df["Index"].tolist()
IndexList(df) == [n \in 1..Len(df) |-> df[n].Index]

Range(f) == {f[x] : x \in DOMAIN f}

\* section 6 up to its button: the messages, whether the button is rendered,
\* and the exception that ends the run there
Section6(ss) ==
    IF "hotel_list_df" \notin DOMAIN ss
    THEN [msgs |-> <<Msg("info", "First, retrieve a list of hotels", <<>>)>>,
          button |-> FALSE, error |-> "none"]
    ELSE IF ~HasColumns(ss["hotel_list_df"])
         THEN [msgs |-> <<>>, button |-> FALSE, error |-> "KeyError"]
         ELSE [msgs |-> <<>>, button |-> TRUE, error |-> "none"]

\* section 7 up to its button
Section7(ss) ==
    IF "selected_hotel_offers_df" \notin DOMAIN ss
    THEN [msgs |-> <<Msg("info", "Please fetch offers for a specific hotel first", <<>>)>>,
          button |-> FALSE, error |-> "none"]
    ELSE IF ~HasColumns(ss["selected_hotel_offers_df"])
         THEN [msgs |-> <<>>, button |-> FALSE, error |-> "KeyError"]
         ELSE [msgs |-> <<>>, button |-> TRUE, error |-> "none"]

\* only the table is stored when a registry is already there
StoreOffers_KeepMap(ss, parsed) ==
    IF "selected_hotel_offers_map" \in DOMAIN ss
    THEN Put(ss, "selected_hotel_offers_df", parsed.df)
    ELSE Put(Put(ss, "selected_hotel_offers_df", parsed.df),
             "selected_hotel_offers_map", parsed.offer_map)

\* the two assignments to st.session_state after parse_hotel_offers
StoreOffers(ss, parsed) ==
    Put(Put(ss, "selected_hotel_offers_df", parsed.df),
        "selected_hotel_offers_map", parsed.offer_map)

\* a run writes nothing of a booking unless "Book This Offer" is pressed
NoBooking ==
    /\ selected_offer_idx' = -1
    /\ booking_payload' = <<>>
    /\ booking_resp' = NoResp

\* sections 6 and 7 of a run in which neither of their buttons is pressed
RenderOffersAndBooking(ss, msgs) ==
    LET s6 == Section6(ss)
        s7 == Section7(ss)
    IN  /\ fetch_button_shown' = s6.button
        /\ book_button_shown' = (s6.error = "none" /\ s7.button)
        /\ run_error' = IF s6.error # "none" THEN s6.error ELSE s7.error
        /\ ui_messages' = IF s6.error # "none" THEN msgs \o s6.msgs
                          ELSE msgs \o s6.msgs \o s7.msgs

\* a run in which no button is pressed
Rerun ==
    /\ last_op' = "rerun"
    /\ RenderOffersAndBooking(session_state, <<>>)
    /\ NoBooking
    /\ hotel_calls' = <<>>
    /\ UNCHANGED <<session_state, hotel_offers_data, latest_offers>>
    /\ UNCHANGED <<origin_input, destination_input, location_calls, origin_code,
                   destination_code, flight_calls, flightVars, resolveVars>>

\* "Get Hotels by City Code" is pressed
GetHotelsByCity ==
    /\ last_op' = "get_hotels"
    /\ NoBooking
    /\ hotel_calls' = <<>>
    /\ UNCHANGED <<hotel_offers_data, latest_offers>>
    /\ UNCHANGED <<origin_input, destination_input, location_calls, origin_code,
                   destination_code, flight_calls, flightVars, resolveVars>>
    /\ \E resp \in HotelListOutcomes :
         CASE resp.kind = "Exception" ->
                /\ UNCHANGED session_state
                /\ fetch_button_shown' = FALSE
                /\ book_button_shown' = FALSE
                /\ run_error' = "Exception"
                /\ ui_messages' = <<>>
           [] resp.kind = "ResponseError" ->
                /\ UNCHANGED session_state
                /\ RenderOffersAndBooking(session_state, <<Msg("error", "Error", <<>>)>>)
           [] resp.kind = "data" /\ resp.data = <<>> ->
                /\ UNCHANGED session_state
                /\ RenderOffersAndBooking(session_state,
                        <<Msg("warning", "No hotels found for that city code", <<>>)>>)
           [] OTHER ->
                LET ss == Put(session_state, "hotel_list_df", parse_hotel_list(resp.data))
                IN  /\ session_state' = ss
                    /\ RenderOffersAndBooking(ss, <<>>)

\* "Fetch Offers for Selected Hotel" is pressed, with selected_idx in the selectbox
FetchOffers ==
    /\ fetch_button_shown
    /\ last_op' = "fetch_offers"
    /\ NoBooking
    /\ UNCHANGED <<origin_input, destination_input, location_calls, origin_code,
                   destination_code, flight_calls, flightVars, resolveVars>>
    /\ LET df_hotels == session_state["hotel_list_df"] IN
       \E n \in 1..Len(df_hotels), resp \in HotelOffersOutcomes :
         LET hotel_id == df_hotels[n].HotelID
             s7(ss) == Section7(ss)
             tail(ss, msgs) ==
                /\ fetch_button_shown' = TRUE
                /\ book_button_shown' = s7(ss).button
                /\ run_error' = s7(ss).error
                /\ ui_messages' = msgs \o s7(ss).msgs
         IN
         /\ hotel_calls' = <<hotel_id>>
         /\ CASE resp.kind = "Exception" ->
                  /\ UNCHANGED <<session_state, hotel_offers_data, latest_offers>>
                  /\ fetch_button_shown' = TRUE
                  /\ book_button_shown' = FALSE
                  /\ run_error' = "Exception"
                  /\ ui_messages' = <<>>
              [] resp.kind = "ResponseError" ->
                  /\ UNCHANGED <<session_state, hotel_offers_data, latest_offers>>
                  /\ tail(session_state, <<Msg("error", "Error fetching hotel offers", <<>>)>>)
              [] resp.kind = "data" /\ resp.data = <<>> ->
                  /\ UNCHANGED <<session_state, hotel_offers_data>>
                  /\ latest_offers' = [answered |-> TRUE, data |-> resp.data]
                  /\ tail(session_state,
                          <<Msg("warning", "No offers found for that hotel / date range", <<>>)>>)
              [] OTHER ->
                  LET ss == StoreOffers(session_state, parse_hotel_offers(resp.data))
                  IN  /\ session_state' = ss
                      /\ hotel_offers_data' = resp.data
                      /\ latest_offers' = [answered |-> TRUE, data |-> resp.data]
                      /\ tail(ss, <<>>)

traveler_info(title) ==
    [id |-> 1,
     name |-> [title |-> title, firstName |-> "John", lastName |-> "Doe"],
     contact |-> [phone |-> "+33679278416", email |-> "test@test.com"]]

payment_info ==
    [id |-> 1, method |-> "creditCard",
     card |-> [vendorCode |-> "VI", cardNumber |-> "4111111111111111",
               expiryDate |-> "2025-08"]]

\* a booking handler that drops the stored offers once it has booked
BookingFrame_Clear ==
    /\ session_state' = [k \in DOMAIN session_state \ {"selected_hotel_offers_df",
                                                         "selected_hotel_offers_map"}
                            |-> session_state[k]]
    /\ UNCHANGED <<hotel_offers_data, latest_offers>>

\* the handler of "Book This Offer" assigns nothing to st.session_state
BookingFrame == UNCHANGED <<session_state, hotel_offers_data, latest_offers>>

\* "Book This Offer" is pressed, with idx in the selectbox of offer indices
BookThisOffer ==
    /\ book_button_shown
    /\ last_op' = "book"
    /\ hotel_calls' = <<>>
    /\ BookingFrame
    /\ UNCHANGED <<origin_input, destination_input, location_calls, origin_code,
                   destination_code, flight_calls, flightVars, resolveVars>>
    /\ fetch_button_shown' = Section6(session_state).button
    /\ book_button_shown' = TRUE
    /\ ui_messages' = Section6(session_state).msgs
    /\ LET df_offers == session_state["selected_hotel_offers_df"]
           offers_map == session_state["selected_hotel_offers_map"]
       IN  \E idx \in Range(IndexList(df_offers)), title \in Titles, svc \in BookingOutcomes :
              /\ selected_offer_idx' = idx
              /\ IF idx \notin DOMAIN offers_map
                 THEN /\ run_error' = "KeyError"
                      /\ booking_payload' = <<>>
                      /\ booking_resp' = NoResp
                 ELSE LET offer_id == offers_map[idx][1]
                          r == book_hotel_offer(offer_id, traveler_info(title),
                                                payment_info, svc)
                      IN  /\ booking_payload' = <<r.payload>>
                          /\ booking_resp' = r.value
                          /\ run_error' = IF r.raised THEN "Exception" ELSE "none"

InitHotels ==
    /\ origin_input = <<>>
    /\ destination_input = <<>>
    /\ IdleSearch /\ IdleFlights /\ IdleResolve /\ IdleHotels
    /\ last_op = "none"

NextHotels == Rerun \/ GetHotelsByCity \/ FetchOffers \/ BookThisOffer

SpecHotels == InitHotels /\ [][NextHotels]_vars

-----------------------------------------------------------------------------
(* Properties *)

\* the offers of the h-th hotel of a hotel-offer result
OffersOf(data, h) == IF "offers" \in DOMAIN data[h] THEN data[h].offers ELSE <<>>

\* the (hotel, offer) pairs of a result, and their traversal order
PairsOf(data) ==
    UNION {{<<h, k>> : k \in 1..Len(OffersOf(data, h))} : h \in 1..Len(data)}

Before(p, q) == p[1] < q[1] \/ (p[1] = q[1] /\ p[2] < q[2])

\* 0-based position of a pair in traversal order
RankOf(data, p) == Cardinality({q \in PairsOf(data) : Before(q, p)})

PairAt(data, i) == CHOOSE p \in PairsOf(data) : RankOf(data, p) = i

RawOffer(data, p) == OffersOf(data, p[1])[p[2]]

OfferIdOf(offer) == IF "id" \in DOMAIN offer THEN offer.id ELSE "N/A"

IsRowsOf(df, data) ==
    /\ Len(df) = Cardinality(PairsOf(data))
    /\ \A n \in 1..Len(df) : df[n].Index = n - 1
    /\ \A p \in PairsOf(data) :
          df[RankOf(data, p) + 1].OfferID = OfferIdOf(RawOffer(data, p))

IsRegistryOf(offer_map, data) ==
    /\ DOMAIN offer_map = 0..(Cardinality(PairsOf(data)) - 1)
    /\ \A p \in PairsOf(data) :
          offer_map[RankOf(data, p)] = <<OfferIdOf(RawOffer(data, p)), RawOffer(data, p)>>

HasOffers == "selected_hotel_offers_df" \in DOMAIN session_state

\* C1: parse_hotel_offers emits one row per (hotel, offer) pair in traversal
\* order, with Index 0..N-1 without gap or reuse, and an offer_map whose keys
\* are exactly 0..N-1, offer_map[i] being (id of the i-th offer, the i-th raw
\* offer unmodified).
C1_RowsAndRegistryFollowTraversal ==
    HasOffers =>
        /\ IsRowsOf(session_state["selected_hotel_offers_df"], hotel_offers_data)
        /\ IsRegistryOf(session_state["selected_hotel_offers_map"], hotel_offers_data)

\* a result whose first hotel has no offer and whose second has two was parsed
C1_Witness ==
    /\ HasOffers
    /\ Len(hotel_offers_data) = 2
    /\ OffersOf(hotel_offers_data, 1) = <<>>
    /\ Len(session_state["selected_hotel_offers_df"]) = 2
    /\ session_state["selected_hotel_offers_map"][1] = <<"OFR2", Offer2>>

\* C2: "Book This Offer" on displayed row i posts the offer id of the i-th
\* (hotel, offer) pair of the result set currently stored and displayed.
C2_BookingSubmitsSelectedRow ==
    last_op = "book" =>
        /\ selected_offer_idx \in 0..(Cardinality(PairsOf(hotel_offers_data)) - 1)
        /\ Len(booking_payload) = 1
        /\ booking_payload[1].data.offerId =
              OfferIdOf(RawOffer(hotel_offers_data,
                                 PairAt(hotel_offers_data, selected_offer_idx)))
        /\ booking_payload[1].data.offerId =
              session_state["selected_hotel_offers_df"][selected_offer_idx + 1].OfferID

\* two hotels with one and two offers; row 2 is booked and the second offer of
\* the second hotel is submitted
C2_Witness ==
    /\ last_op = "book"
    /\ Len(hotel_offers_data) = 2
    /\ Len(OffersOf(hotel_offers_data, 1)) = 1
    /\ Len(OffersOf(hotel_offers_data, 2)) = 2
    /\ selected_offer_idx = 2
    /\ booking_payload[1].data.offerId = OffersOf(hotel_offers_data, 2)[2].id

\* C3: after a hotel-offer search that the service answered without error,
\* with or without offers, the current registry holds only the entries built
\* from that newest answer.
C3_RegistryReplacedOnEverySuccess ==
    (latest_offers.answered /\ HasOffers) =>
        IsRegistryOf(session_state["selected_hotel_offers_map"], latest_offers.data)

\* C4: book_hotel_offer always returns a value, the confirmation or
\* {error: message}; no exception leaves it, however the external call fails.
C4_BookingAlwaysReturnsValue ==
    last_op = "book" =>
        /\ run_error = "none"
        /\ (booking_resp = Confirmation \/ "error" \in DOMAIN booking_resp)

\* C5: a booking attempt, successful or not, leaves the stored hotel list,
\* offer rows and registry as they were, and the rows stay bookable.
C5_BookingLeavesSearchStateUnchanged ==
    [][last_op' = "book" => (session_state' = session_state /\ book_button_shown')]_vars

\* a booking failed and the offers of the search are still stored
C5_Witness ==
    /\ last_op = "book"
    /\ "error" \in DOMAIN booking_resp
    /\ "hotel_list_df" \in DOMAIN session_state
    /\ HasOffers
    /\ session_state["selected_hotel_offers_map"][selected_offer_idx][1]
          = booking_payload[1].data.offerId

Resolved(code) == code \notin {Unset, None, ""}

NamedInError(place_name) ==
    \E i \in 1..Len(ui_messages) :
        ui_messages[i].widget = "error" /\ ui_messages[i].place = place_name

\* C6: a flight search is issued only after origin and destination both
\* resolved to a code; when either does not resolve, the run stops with an
\* error naming that place and issues no flight query.
C6_FlightSearchOnlyAfterBothResolved ==
    last_op = "generate_itinerary" =>
        /\ flight_calls # <<>> => (Resolved(origin_code) /\ Resolved(destination_code))
        /\ (origin_code # Unset /\ ~Resolved(origin_code)) =>
              (flight_calls = <<>> /\ destination_code = Unset /\ NamedInError(origin_input))
        /\ (destination_code # Unset /\ ~Resolved(destination_code)) =>
              (flight_calls = <<>> /\ NamedInError(destination_input))

\* the origin resolved, the lookup of the destination found nothing, and the
\* run stopped before the flight search
C6_Witness ==
    /\ last_op = "generate_itinerary"
    /\ Resolved(origin_code)
    /\ destination_code = None
    /\ Len(location_calls) = 2
    /\ flight_calls = <<>>
    /\ NamedInError(destination_input)

\* C7: in every reachable session state the booking section resolves the
\* selected index without an unhandled error.
C7_BookingSectionNeverFails == run_error # "KeyError"

WhitespaceOnly(s) == \A i \in 1..Len(s) : s[i] \in Whitespace

\* C8: get_iata_code sends a lookup only for a non-empty sanitized name; for an
\* empty or whitespace-only input it returns None and sends nothing.
C8_LookupOnlyForNonEmptyName ==
    last_op = "get_iata_code" =>
        /\ \A i \in 1..Len(location_calls) : location_calls[i] # <<>>
        /\ WhitespaceOnly(place_query) => (location_calls = <<>> /\ iata_code = None)

\* a call with a name of two blanks returned None and sent nothing
C8_Witness ==
    /\ last_op = "get_iata_code"
    /\ place_query = <<" ", " ">>
    /\ location_calls = <<>>
    /\ iata_code = None

\* the name with the six characters removed and the outer whitespace trimmed
TrimmedAndClean(s) == strip(SelectSeq(s, LAMBDA c : c \notin ProblemChars))

\* C9: sanitize_place_name returns the input without the characters " ' { } < >,
\* without leading or trailing whitespace, the other characters kept in order.
C9_SanitizedNameIsCleanAndTrimmed ==
    (last_op = "get_iata_code" /\ location_calls # <<>>) =>
        LET clean == location_calls[1] IN
        /\ \A i \in 1..Len(clean) : clean[i] \notin ProblemChars
        /\ clean[1] \notin Whitespace
        /\ clean[Len(clean)] \notin Whitespace
        /\ clean = TrimmedAndClean(place_query)

RECURSIVE SegmentCount(_)
\* the number of segments in a list of itineraries
SegmentCount(itineraries) ==
    IF itineraries = <<>> THEN 0
    ELSE (IF "segments" \in DOMAIN Head(itineraries)
          THEN Len(Head(itineraries).segments) ELSE 0)
         + SegmentCount(Tail(itineraries))

SegmentsOf(offer) ==
    IF "itineraries" \in DOMAIN offer THEN SegmentCount(offer.itineraries) ELSE 0

PriceOf(offer) ==
    IF "price" \in DOMAIN offer /\ "total" \in DOMAIN offer.price
    THEN offer.price.total ELSE "N/A"

RECURSIVE RowsBefore(_, _)
\* the number of rows of the offers before the k-th
RowsBefore(data, k) ==
    IF k <= 1 THEN 0 ELSE RowsBefore(data, k - 1) + SegmentsOf(data[k - 1])

\* C10: parse_flight_offers emits one row per (offer, itinerary, segment), so S
\* rows for an offer of S segments, each with the offer's total price, or "N/A"
\* when the offer has no price.
C10_OneRowPerSegmentWithOfferPrice ==
    last_op = "parse_flight_offers" =>
        /\ Len(flight_df) = RowsBefore(flight_offers_data, Len(flight_offers_data) + 1)
        /\ \A k \in 1..Len(flight_offers_data) :
              \A n \in (RowsBefore(flight_offers_data, k) + 1)
                          ..RowsBefore(flight_offers_data, k + 1) :
                  flight_df[n].TotalPrice = PriceOf(flight_offers_data[k])

\* an offer of three segments in two itineraries, priced, then an offer
\* without price
C10_Witness ==
    /\ last_op = "parse_flight_offers"
    /\ Len(flight_offers_data) = 2
    /\ SegmentsOf(flight_offers_data[1]) = 3
    /\ Len(flight_offers_data[1].itineraries) = 2
    /\ PriceOf(flight_offers_data[1]) = "250.50"
    /\ "price" \notin DOMAIN flight_offers_data[2]
    /\ Len(flight_df) = 5
    /\ flight_df[3].TotalPrice = "250.50"
    /\ flight_df[4].TotalPrice = "N/A"

====
